---- MODULE Spec2Model ----
(***************************************************************************)
(* Round scoring and round lifecycle of the cards_match word game.         *)
(*                                                                         *)
(* The database tables (games, players, rounds, submissions, round_scores) *)
(* are the state.  Every request handler is a sequence of database         *)
(* operations; each operation is one atomic step, so that concurrent       *)
(* requests interleave between their awaits as they do on the server.      *)
(***************************************************************************)
EXTENDS Integers, Sequences, FiniteSets, TLC

(***************************************************************************)
(* Bounds of the model.                                                    *)
(***************************************************************************)
NumPlayers == 2        \* players that may belong to the game (host is 1)
MaxSubmissions == 2    \* submission rows in the table
MaxRaceSubmissions == 1  \* the same where requests overlap
MaxRepeats == 1        \* end-round requests served for a round already closed
MaxRequests == 2       \* requests in flight at once
MaxOverlaps == 2       \* requests that arrive while another is in flight
MaxRoundNo == 6        \* largest round number a request may name
NumTopics == 1         \* topics in each round type's pool
NumPoolTopics == 2     \* topics in each pool where topic selection is checked
MaxFaults == 1         \* round_scores inserts that fail for an outside cause
MaxListLen == 2        \* longest word list handed to the scorer
NumScorerPlayers == 3  \* most players in one scorer input
NumJoinPlayers == 3    \* players rows where joins overlap (host is 1)
SmallMaxPlayers == 2   \* max_players of the game where joins overlap
NumApplyRounds == 2    \* rounds whose scores are applied by calculate-scores
NumDrawTopics == 2     \* topics a pool may hold where the draw is checked
NumTopicIds == 3       \* topic ids a used-id list may name
MaxUsedIds == 3        \* longest used-id list of the tracker
MaxListedIds == 2      \* longest used-id list handed to getRandomTopic

(***************************************************************************)
(* Words.  A word is a sequence of characters; the alphabet has letters in *)
(* both cases and the blank.                                               *)
(***************************************************************************)
Cat == <<"c">>
CatUpper == <<"C", " ">>
Dog == <<"d">>
Blank == <<" ">>

Vocabulary == {Cat, CatUpper, Dog, Blank}

\* String.prototype.toLowerCase, character by character
LowerChar(c) ==
  CASE c = "C" -> "c"
    [] c = "D" -> "d"
    [] OTHER -> c

toLowerCase(w) == [i \in 1..Len(w) |-> LowerChar(w[i])]

RECURSIVE trimStart(_)
trimStart(w) ==
  IF w = <<>> THEN w
  ELSE IF Head(w) = " " THEN trimStart(Tail(w)) ELSE w

RECURSIVE trimEnd(_)
trimEnd(w) ==
  IF w = <<>> THEN w
  ELSE IF w[Len(w)] = " " THEN trimEnd(SubSeq(w, 1, Len(w) - 1)) ELSE w

\* String.prototype.trim
trim(w) == trimEnd(trimStart(w))

\* the normalisation without its toLowerCase()
normalizedWordCaseSensitive(w) == trim(w)

\* word.toLowerCase().trim()
normalizedWord(w) == trim(toLowerCase(w))

(***************************************************************************)
(* RoundScorer.  playerWords is the JS object { playerId: [words] } in key *)
(* order: a sequence of entries [id, words] with distinct ids.             *)
(* wordToPlayers is the JS object { word: [playerIds] } in insertion       *)
(* order: a sequence of entries [word, playerIds].                         *)
(***************************************************************************)
Keys(playerWords) == {playerWords[i].id : i \in 1..Len(playerWords)}

WordsOf(playerWords, p) ==
  LET i == CHOOSE j \in 1..Len(playerWords) : playerWords[j].id = p
  IN playerWords[i].words

InitScores(playerWords) ==
  [p \in Keys(playerWords) |->
     [score |-> 0, matchedWords |-> <<>>, bonusAwarded |-> FALSE]]

HasWord(map, w) == \E i \in 1..Len(map) : map[i].word = w

\* wordToPlayers[w], or the empty list where the key is undefined
PlayersOfWord(map, w) ==
  IF HasWord(map, w)
  THEN map[CHOOSE i \in 1..Len(map) : map[i].word = w].playerIds
  ELSE <<>>

\* if (!wordToPlayers[w]) wordToPlayers[w] = []; wordToPlayers[w].push(p)
PushPlayer(map, w, p) ==
  IF HasWord(map, w)
  THEN [i \in 1..Len(map) |->
          IF map[i].word = w
          THEN [map[i] EXCEPT !.playerIds = Append(@, p)]
          ELSE map[i]]
  ELSE Append(map, [word |-> w, playerIds |-> <<p>>])

RECURSIVE PopulateWords(_, _, _)
PopulateWords(map, p, words) ==
  IF words = <<>> THEN map
  ELSE LET n == normalizedWord(Head(words))
       IN PopulateWords(IF n # <<>> THEN PushPlayer(map, n, p) ELSE map,
                        p, Tail(words))

RECURSIVE PopulateEntries(_, _)
PopulateEntries(map, entries) ==
  IF entries = <<>> THEN map
  ELSE PopulateEntries(PopulateWords(map, Head(entries).id, Head(entries).words),
                       Tail(entries))

wordToPlayers(playerWords) == PopulateEntries(<<>>, playerWords)

\* the award loop stopping after the first entry of playerIds
AwardFirst(scores, word, playerIds, points) ==
  IF playerIds = <<>> THEN scores
  ELSE [scores EXCEPT ![Head(playerIds)] =
          [@ EXCEPT !.score = @ + points,
                    !.matchedWords = Append(@, word)]]

\* playerIds.forEach(p => { scores[p].score += 1; scores[p].matchedWords.push(word) })
RECURSIVE AwardEach(_, _, _, _)
AwardEach(scores, word, playerIds, points) ==
  IF playerIds = <<>> THEN scores
  ELSE AwardEach([scores EXCEPT ![Head(playerIds)] =
                    [@ EXCEPT !.score = @ + points,
                              !.matchedWords = Append(@, word)]],
                 word, Tail(playerIds), points)

\* the matching loop with "playerIds.length > 0" in place of "> 1"
RECURSIVE AwardMatchingAny(_, _)
AwardMatchingAny(scores, map) ==
  IF map = <<>> THEN scores
  ELSE AwardMatchingAny(
         IF Len(Head(map).playerIds) > 0
         THEN AwardEach(scores, Head(map).word, Head(map).playerIds, 1)
         ELSE scores,
         Tail(map))

\* the "Award points for matching words" loop
RECURSIVE AwardMatching(_, _)
AwardMatching(scores, map) ==
  IF map = <<>> THEN scores
  ELSE AwardMatching(
         IF Len(Head(map).playerIds) > 1
         THEN AwardEach(scores, Head(map).word, Head(map).playerIds, 1)
         ELSE scores,
         Tail(map))

\* the "Award points for unique words" loop
RECURSIVE AwardUnique(_, _)
AwardUnique(scores, map) ==
  IF map = <<>> THEN scores
  ELSE AwardUnique(
         IF Len(Head(map).playerIds) = 1
         THEN [scores EXCEPT ![Head(map).playerIds[1]].score = @ + 1]
         ELSE AwardEach(scores, Head(map).word, Head(map).playerIds, 0),
         Tail(map))

\* words.filter(word => word.trim() !== '')
validWords(words) == SelectSeq(words, LAMBDA w : trim(w) # <<>>)

\* the bonus test with "some" in place of "every"
someWordsMatched(map, words) ==
  \E i \in 1..Len(validWords(words)) :
     Len(PlayersOfWord(map, normalizedWord(validWords(words)[i]))) > 1

allWordsMatched(map, words) ==
  \A i \in 1..Len(validWords(words)) :
     Len(PlayersOfWord(map, normalizedWord(validWords(words)[i]))) > 1

\* the bonus test with "some" in place of "every"
someWordsUnique(map, words) ==
  \E i \in 1..Len(validWords(words)) :
     Len(PlayersOfWord(map, normalizedWord(validWords(words)[i]))) = 1

allWordsUnique(map, words) ==
  \A i \in 1..Len(validWords(words)) :
     Len(PlayersOfWord(map, normalizedWord(validWords(words)[i]))) = 1

\* the bonus loop without its "validWords.length > 0" test
PerfectMatchBonusVacuous(scores, playerWords, map) ==
  [p \in DOMAIN scores |->
     IF allWordsMatched(map, WordsOf(playerWords, p))
     THEN [scores[p] EXCEPT !.score = @ + 1, !.bonusAwarded = TRUE]
     ELSE scores[p]]

\* the "Check for perfect match bonus" loop
PerfectMatchBonus(scores, playerWords, map) ==
  [p \in DOMAIN scores |->
     IF /\ Len(validWords(WordsOf(playerWords, p))) > 0
        /\ allWordsMatched(map, WordsOf(playerWords, p))
     THEN [scores[p] EXCEPT !.score = @ + 1, !.bonusAwarded = TRUE]
     ELSE scores[p]]

\* the "Check for perfect unmatch bonus" loop
PerfectUnmatchBonus(scores, playerWords, map) ==
  [p \in DOMAIN scores |->
     IF /\ Len(validWords(WordsOf(playerWords, p))) > 0
        /\ allWordsUnique(map, WordsOf(playerWords, p))
     THEN [scores[p] EXCEPT !.score = @ + 1, !.bonusAwarded = TRUE]
     ELSE scores[p]]

calculateMatchRoundScores(playerWords) ==
  LET map == wordToPlayers(playerWords)
  IN PerfectMatchBonus(AwardMatching(InitScores(playerWords), map),
                       playerWords, map)

calculateUnmatchRoundScores(playerWords) ==
  LET map == wordToPlayers(playerWords)
  IN PerfectUnmatchBonus(AwardUnique(InitScores(playerWords), map),
                         playerWords, map)

\* the scorer's output before and after a call
NotScored == [done |-> FALSE, scores |-> <<>>]
Scored(scores) == [done |-> TRUE, scores |-> scores]

(***************************************************************************)
(* The scoring of the edge function's calculate-scores action and of the   *)
(* hook's calculateAndRecordScores: submissionsByPlayer is compared word   *)
(* by word as stored, player against player.                               *)
(***************************************************************************)
\* otherPlayerWords.includes(word)
includes(words, w) == \E k \in 1..Len(words) : words[k] = w

\* the words of playerWords that otherPlayerWords includes, by position
IncludedPositions(playerWords, otherPlayerWords) ==
  {k \in 1..Len(playerWords) : includes(otherPlayerWords, playerWords[k])}

\* round.type === 'match': one point per word and other player holding it
RECURSIVE matchPoints(_, _, _)
matchPoints(submissionsByPlayer, p, others) ==
  IF others = {} THEN 0
  ELSE LET q == CHOOSE x \in others : TRUE
       IN Cardinality(IncludedPositions(WordsOf(submissionsByPlayer, p),
                                        WordsOf(submissionsByPlayer, q)))
          + matchPoints(submissionsByPlayer, p, others \ {q})

\* else: one point per word that no other player holds (isUnique)
unmatchPoints(submissionsByPlayer, p) ==
  Cardinality({k \in 1..Len(WordsOf(submissionsByPlayer, p)) :
                 \A q \in Keys(submissionsByPlayer) \ {p} :
                   ~includes(WordsOf(submissionsByPlayer, q),
                             WordsOf(submissionsByPlayer, p)[k])})

\* scores of calculateScores (index.js); calculateAndRecordScores
\* (useGame.js) has the same loops
calculateScores(submissionsByPlayer, type) ==
  [p \in Keys(submissionsByPlayer) |->
     IF type = "match"
     THEN matchPoints(submissionsByPlayer, p, Keys(submissionsByPlayer) \ {p})
     ELSE unmatchPoints(submissionsByPlayer, p)]

(***************************************************************************)
(* Database state and requests in flight.                                  *)
(***************************************************************************)
VARIABLES
  game,          \* the games row: status, current_round, round_count
  players,       \* the players rows: joined, score (player 1 is the host)
  rounds,        \* the rounds rows by round_number (UNIQUE(game_id, round_number))
  submissions,   \* the submissions rows (UNIQUE(round_id, player_id, word))
  round_scores,  \* the round_scores rows (UNIQUE(round_id, player_id))
  route,         \* which of the two start-round route files is served
  topics,        \* the topic ids of each round type's pool
  overlaps,      \* requests that may still arrive while another is in flight
  capacity,      \* rows the submissions table still takes
  requests,      \* handler instances in flight, one per slot
  score_updates, \* history: update_player_score calls made per round and player
  faults,        \* history: round_scores inserts that failed for a cause other
                 \* than the UNIQUE constraint
  playerWordsIn, \* scorer input
  roundTypeIn,   \* scorer input
  scoresOut,     \* scorer output
  usedTopicIds,  \* TopicsTracker: the used topic ids of each round type
  drawn,         \* the last getRandomTopic call and what it gave
  time_up        \* per round: time_per_round seconds have passed since start_time

vars == <<game, players, rounds, submissions, round_scores, route, topics,
          overlaps,
          capacity,
          requests, score_updates, faults, playerWordsIn, roundTypeIn,
          scoresOut,
          usedTopicIds, drawn, time_up>>

dbVars == <<game, players, rounds, submissions, round_scores>>
deployment == <<route, topics>>
history == <<score_updates, faults>>
scorerVars == <<playerWordsIn, roundTypeIn, scoresOut>>
tracker == <<usedTopicIds, drawn>>

(***************************************************************************)
(* Program constants.                                                      *)
(***************************************************************************)
DefaultRoundCount == 5
DefaultMaxPlayers == 8
MinPlayersToStart == 2

PlayerIds == 1..NumPlayers
Host == 1
RoundNos == 0..MaxRoundNo
RoundTypes == {"match", "unmatch"}
TopicIds(type) == topics[type]
ReqIds == 1..MaxRequests
LifecycleWords == {Cat}

NoRound == [exists |-> FALSE, type |-> "none", topic_id |-> 0, end_time |-> 0]
NewRound(type, topic) ==
  [exists |-> TRUE, type |-> type, topic_id |-> topic, end_time |-> 0]

Idle ==
  [op |-> "idle", pc |-> "idle", round |-> 0, type |-> "none", topic_id |-> 0,
   scores |-> <<>>, todo |-> <<>>, current_round |-> 0, round_count |-> 0,
   failed |-> FALSE]

Joined == {p \in DOMAIN players : players[p].joined}

\* a request takes the lowest free slot; one that arrives while another is
\* in flight uses up one of the overlaps
FreeSlot(i) ==
  /\ requests[i].op = "idle"
  /\ \A j \in ReqIds : j < i => requests[j].op # "idle"
  /\ IF \A j \in ReqIds : requests[j].op = "idle"
     THEN UNCHANGED overlaps
     ELSE overlaps > 0 /\ overlaps' = overlaps - 1

Finish(i) == requests' = [requests EXCEPT ![i] = Idle]
Goto(i, pc) == requests' = [requests EXCEPT ![i].pc = pc]

(***************************************************************************)
(* create: the game row in lobby with the host as its only player.         *)
(***************************************************************************)
InitDb ==
  /\ game = [status |-> "lobby", current_round |-> 0,
             round_count |-> DefaultRoundCount,
             max_players |-> DefaultMaxPlayers]
  /\ players = [p \in PlayerIds |-> [joined |-> p = Host, score |-> 0]]
  /\ rounds = [n \in RoundNos |-> NoRound]
  /\ submissions = {}
  /\ round_scores = {}
  /\ requests = [i \in ReqIds |-> Idle]
  /\ score_updates = [r \in RoundNos |-> [p \in PlayerIds |-> 0]]
  /\ faults = {}

\* no getRandomTopic call yet, and a new TopicsTracker
NoDraw == [called |-> FALSE, type |-> "none", used |-> <<>>, topic |-> 0,
           error |-> FALSE]

NoTracker ==
  /\ usedTopicIds = [type \in {"match", "unmatch"} |-> <<>>]
  /\ drawn = NoDraw

\* no round has run out of time
NoTimeUp == time_up = [r \in 0..MaxRoundNo |-> FALSE]

NoScorer ==
  /\ playerWordsIn = <<>>
  /\ roundTypeIn = "none"
  /\ scoresOut = NotScored

\* the topics data: n topics for each round type
Pools(n) == [type \in RoundTypes |-> 1..n]

\* requests are served one after the other
Init ==
  /\ InitDb
  /\ NoTracker
  /\ NoTimeUp
  /\ route \in {"A", "B"}
  /\ topics = Pools(NumTopics)
  /\ overlaps = 0
  /\ capacity = MaxSubmissions
  /\ NoScorer

\* up to MaxOverlaps requests arrive while another is being served
InitRace ==
  /\ InitDb
  /\ NoTracker
  /\ NoTimeUp
  /\ route \in {"A", "B"}
  /\ topics = Pools(NumTopics)
  /\ overlaps = MaxOverlaps
  /\ capacity = MaxRaceSubmissions
  /\ NoScorer

(***************************************************************************)
(* join: a player is added while the game is in lobby and not full.        *)
(***************************************************************************)
Join(p) ==
  /\ ~players[p].joined
  /\ game.status = "lobby"
  /\ Cardinality(Joined) < game.max_players
  /\ players' = [players EXCEPT ![p].joined = TRUE]
  /\ UNCHANGED <<game, rounds, submissions, round_scores, deployment, time_up, tracker, capacity, overlaps,
                 requests, history, scorerVars>>

(***************************************************************************)
(* handleSubmitWords: the client inserts one row per trimmed, non-empty    *)
(* word for the round it displays, which it loaded by the game's           *)
(* current_round; a duplicate row is rejected by the UNIQUE constraint and *)
(* the error is ignored.  The round's end_time is not looked at.           *)
(***************************************************************************)
SubmitWord(p, r, w) ==
  /\ players[p].joined
  /\ rounds[r].exists
  /\ r = game.current_round
  /\ trim(w) # <<>>
  /\ capacity > 0
  /\ [round_id |-> r, player_id |-> p, word |-> trim(w)] \notin submissions
  /\ submissions' = submissions \cup
                      {[round_id |-> r, player_id |-> p, word |-> trim(w)]}
  /\ capacity' = capacity - 1
  /\ UNCHANGED <<game, players, rounds, round_scores, deployment, time_up, tracker, overlaps,
                 requests, history, scorerVars>>

(***************************************************************************)
(* end-round: stamp end_time, then calculateRoundScores.                   *)
(***************************************************************************)
\* the orders in which a select without ORDER BY may return a set of rows
RECURSIVE RowOrders(_)
RowOrders(rows) ==
  IF rows = {} THEN {<<>>}
  ELSE UNION {{<<x>> \o rest : rest \in RowOrders(rows \ {x})} : x \in rows}

\* playerWords[id].push(word), creating the key first where it is missing
PushWord(playerWords, id, word, keep) ==
  IF id \in Keys(playerWords)
  THEN [i \in 1..Len(playerWords) |->
          IF playerWords[i].id = id /\ keep
          THEN [playerWords[i] EXCEPT !.words = Append(@, word)]
          ELSE playerWords[i]]
  ELSE Append(playerWords,
              [id |-> id, words |-> IF keep THEN <<word>> ELSE <<>>])

\* "Group submissions by player": non-empty words, lower-cased and trimmed
RECURSIVE GroupByPlayer(_, _)
GroupByPlayer(playerWords, rows) ==
  IF rows = <<>> THEN playerWords
  ELSE GroupByPlayer(
         PushWord(playerWords, Head(rows).player_id,
                  trim(toLowerCase(Head(rows).word)),
                  trim(Head(rows).word) # <<>>),
         Tail(rows))

ScoreRound(type, playerWords) ==
  IF type = "match"
  THEN calculateMatchRoundScores(playerWords)
  ELSE calculateUnmatchRoundScores(playerWords)

\* the score and bonus columns of the rows saveRoundScores writes
ScoreColumns(scores) ==
  [p \in DOMAIN scores |->
     [score |-> scores[p].score, bonusAwarded |-> scores[p].bonusAwarded]]

KeyOrder(playerWords) == [i \in 1..Len(playerWords) |-> playerWords[i].id]

HasScoreRow(r, p) ==
  \E row \in round_scores : row.round_id = r /\ row.player_id = p

\* end_time is 0 for null and k for the timestamp of the k-th update of the
\* round's end_time (the clock advances between two updates)
Repeats ==
  LET RECURSIVE Sum(_)
      Sum(S) == IF S = {} THEN 0
                ELSE LET r == CHOOSE x \in S : TRUE
                     IN (IF rounds[r].end_time > 1
                         THEN rounds[r].end_time - 1 ELSE 0) + Sum(S \ {r})
  IN Sum(RoundNos)

\* rounds.update({ end_time: new Date() }).eq('id', roundId)
EndRound_Stamp(i, r) ==
  /\ FreeSlot(i)
  /\ rounds[r].exists
  /\ rounds[r].end_time # 0 => Repeats < MaxRepeats
  /\ rounds' = [rounds EXCEPT ![r].end_time = @ + 1]
  /\ requests' = [requests EXCEPT ![i] =
                    [Idle EXCEPT !.op = "end-round", !.pc = "get_submissions",
                                 !.round = r, !.type = rounds[r].type]]
  /\ UNCHANGED <<game, players, submissions, round_scores, deployment, time_up, tracker, capacity,
                 history, scorerVars>>

\* select the round's submissions; none: return; else compute the scores
EndRound_GetSubmissions(i) ==
  /\ requests[i].op = "end-round" /\ requests[i].pc = "get_submissions"
  /\ LET rows == {s \in submissions : s.round_id = requests[i].round}
     IN IF rows = {}
        THEN Finish(i)
        ELSE \E order \in RowOrders(rows) :
               LET playerWords == GroupByPlayer(<<>>, order)
               IN requests' = [requests EXCEPT ![i] =
                    [@ EXCEPT !.pc = "insert_score",
                              !.scores = ScoreColumns(
                                 ScoreRound(requests[i].type, playerWords)),
                              !.todo = KeyOrder(playerWords)]]
  /\ UNCHANGED <<dbVars, deployment, time_up, tracker, capacity, overlaps, history, scorerVars>>

\* saveRoundScores: round_scores.insert(...); a UNIQUE violation is returned
\* in the result, which is not looked at (failed records that it happened)
EndRound_InsertScore(i) ==
  /\ requests[i].op = "end-round" /\ requests[i].pc = "insert_score"
  /\ LET p == Head(requests[i].todo)
         r == requests[i].round
     IN /\ round_scores' =
             IF HasScoreRow(r, p) THEN round_scores
             ELSE round_scores \cup
                    {[round_id |-> r, player_id |-> p,
                      score |-> requests[i].scores[p].score,
                      bonus_awarded |-> requests[i].scores[p].bonusAwarded]}
        /\ requests' = [requests EXCEPT ![i] =
                          [@ EXCEPT !.pc = "update_player",
                                    !.failed = @ \/ HasScoreRow(r, p)]]
  /\ UNCHANGED <<game, players, rounds, submissions, deployment, time_up, tracker, capacity, overlaps,
                 history, scorerVars>>

\* saveRoundScores: rpc('update_player_score'): score = score + p_score_to_add
EndRound_UpdatePlayer(i) ==
  /\ requests[i].op = "end-round" /\ requests[i].pc = "update_player"
  /\ LET p == Head(requests[i].todo)
         r == requests[i].round
     IN /\ players' = [players EXCEPT ![p].score =
                         @ + requests[i].scores[p].score]
        /\ score_updates' = [score_updates EXCEPT ![r][p] = @ + 1]
  /\ requests' = [requests EXCEPT ![i] =
                    [@ EXCEPT !.todo = Tail(@),
                              !.pc = IF Tail(requests[i].todo) = <<>>
                                     THEN "get_game" ELSE "insert_score"]]
  /\ UNCHANGED <<game, rounds, submissions, round_scores, deployment, time_up, tracker, capacity, overlaps,
                 scorerVars, faults>>

\* games.select('round_count, current_round')
EndRound_GetGame(i) ==
  /\ requests[i].op = "end-round" /\ requests[i].pc = "get_game"
  /\ requests' = [requests EXCEPT ![i] =
                    [@ EXCEPT !.current_round = game.current_round,
                              !.round_count = game.round_count,
                              !.pc = IF game.current_round >= game.round_count
                                     THEN "complete" ELSE "insert_round"]]
  /\ UNCHANGED <<dbVars, deployment, time_up, tracker, capacity, overlaps, history, scorerVars>>

\* games.update({ status: 'completed' })
EndRound_Complete(i) ==
  /\ requests[i].op = "end-round" /\ requests[i].pc = "complete"
  /\ game' = [game EXCEPT !.status = "completed"]
  /\ Finish(i)
  /\ UNCHANGED <<players, rounds, submissions, round_scores, deployment, time_up, tracker, capacity, overlaps,
                 history, scorerVars>>

\* nextRoundNumber % 2 === 0 ? 'match' : 'unmatch'
TypeByParity(n) == IF n % 2 = 0 THEN "match" ELSE "unmatch"

\* rounds.insert(next round); a UNIQUE violation is logged and ends the call
EndRound_InsertRound(i) ==
  /\ requests[i].op = "end-round" /\ requests[i].pc = "insert_round"
  /\ LET n == requests[i].current_round + 1
     IN IF rounds[n].exists
        THEN /\ Finish(i)
             /\ UNCHANGED rounds
        ELSE /\ \E topic \in TopicIds(TypeByParity(n)) :
                  rounds' = [rounds EXCEPT ![n] =
                               NewRound(TypeByParity(n), topic)]
             /\ Goto(i, "update_current")
  /\ UNCHANGED <<game, players, submissions, round_scores, deployment, time_up, tracker, capacity, overlaps,
                 history, scorerVars>>

\* games.update({ current_round: nextRoundNumber })
EndRound_UpdateCurrent(i) ==
  /\ requests[i].op = "end-round" /\ requests[i].pc = "update_current"
  /\ game' = [game EXCEPT !.current_round = requests[i].current_round + 1]
  /\ Finish(i)
  /\ UNCHANGED <<players, rounds, submissions, round_scores, deployment, time_up, tracker, capacity, overlaps,
                 history, scorerVars>>

\* the handler's answer when calculateRoundScores returns: res.status(200)
\* .json({ success: true }); 500 is sent from the catch block only, and none
\* of the writes above throws
EndRoundResponse(req) ==
  IF req.op = "end-round" THEN "success" ELSE "none"

EndRound(i) ==
  \/ \E r \in RoundNos : EndRound_Stamp(i, r)
  \/ EndRound_GetSubmissions(i)
  \/ EndRound_InsertScore(i)
  \/ EndRound_UpdatePlayer(i)
  \/ EndRound_GetGame(i)
  \/ EndRound_Complete(i)
  \/ EndRound_InsertRound(i)
  \/ EndRound_UpdateCurrent(i)

(***************************************************************************)
(* start-round.  Two files of the repository implement the route; route    *)
(* says which one is served.  File A creates round currentRoundNumber and  *)
(* accepts roundType and topicId; file B creates currentRoundNumber + 1.   *)
(***************************************************************************)
\* the round number the request creates
NewRoundNumber(N) == IF route = "A" THEN N ELSE N + 1

\* the round whose end_time the request checks, 0 - 1 where it checks none
RoundToCheck(N) ==
  IF route = "A" THEN (IF N > 1 THEN N - 1 ELSE 0 - 1)
  ELSE (IF N > 0 THEN N ELSE 0 - 1)

\* req.body.roundType || (currentRoundNumber % 2 === 0 ? 'match' : 'unmatch')
RoundTypeFor(N, given) ==
  IF route = "A" /\ given # "none" THEN given ELSE TypeByParity(N)

\* games.select('*'): "Maximum number of rounds reached" ends the call
AfterGameCheck(N) ==
  IF game.current_round >= game.round_count THEN "rejected"
  ELSE IF RoundToCheck(N) >= 0 THEN "check_round" ELSE "insert_round"

\* the host's client posts { currentRoundNumber }: the number of the round
\* it displays, or 0 when it has none; the handler reads the player (host)
\* and the game
StartRound_Call(i, N) ==
  /\ FreeSlot(i)
  /\ players[Host].joined
  /\ N = 0 \/ rounds[N].exists
  /\ NewRoundNumber(N) \in RoundNos
  /\ AfterGameCheck(N) # "rejected"
  /\ requests' = [requests EXCEPT ![i] =
                    [Idle EXCEPT !.op = "start-round", !.round = N,
                                 !.pc = AfterGameCheck(N)]]
  /\ UNCHANGED <<dbVars, deployment, time_up, tracker, capacity, history, scorerVars>>

\* the same reads, for the call made by start
StartRound_GetGame(i) ==
  /\ requests[i].op = "start-round" /\ requests[i].pc = "get_game"
  /\ IF AfterGameCheck(requests[i].round) = "rejected"
     THEN Finish(i)
     ELSE Goto(i, AfterGameCheck(requests[i].round))
  /\ UNCHANGED <<dbVars, deployment, time_up, tracker, capacity, overlaps, history, scorerVars>>

\* rounds.select('end_time') of the previous round: missing or still open
\* ends the call
StartRound_CheckRound(i) ==
  /\ requests[i].op = "start-round" /\ requests[i].pc = "check_round"
  /\ LET r == RoundToCheck(requests[i].round)
     IN IF rounds[r].exists /\ rounds[r].end_time # 0
        THEN Goto(i, "insert_round")
        ELSE Finish(i)
  /\ UNCHANGED <<dbVars, deployment, time_up, tracker, capacity, overlaps, history, scorerVars>>

\* rounds.insert(new round); a UNIQUE violation is thrown and ends the call
StartRound_InsertRound(i) ==
  /\ requests[i].op = "start-round" /\ requests[i].pc = "insert_round"
  /\ LET n == NewRoundNumber(requests[i].round)
         type == RoundTypeFor(requests[i].round, requests[i].type)
     IN IF rounds[n].exists
        THEN /\ Finish(i)
             /\ UNCHANGED rounds
        ELSE /\ \E topic \in TopicIds(type) :
                  /\ route = "A" /\ requests[i].topic_id # 0
                       => topic = requests[i].topic_id
                  /\ rounds' = [rounds EXCEPT ![n] = NewRound(type, topic)]
             /\ Goto(i, "update_current")
  /\ UNCHANGED <<game, players, submissions, round_scores, deployment, time_up, tracker, capacity, overlaps,
                 history, scorerVars>>

\* games.update({ current_round: newRoundNumber })
StartRound_UpdateCurrent(i) ==
  /\ requests[i].op = "start-round" /\ requests[i].pc = "update_current"
  /\ game' = [game EXCEPT !.current_round = NewRoundNumber(requests[i].round)]
  /\ Finish(i)
  /\ UNCHANGED <<players, rounds, submissions, round_scores, deployment, time_up, tracker, capacity, overlaps,
                 history, scorerVars>>

StartRound(i) ==
  \/ \E N \in RoundNos : StartRound_Call(i, N)
  \/ StartRound_GetGame(i)
  \/ StartRound_CheckRound(i)
  \/ StartRound_InsertRound(i)
  \/ StartRound_UpdateCurrent(i)

(***************************************************************************)
(* start: host and lobby checks, player count, status update, then the     *)
(* start-round call for round 1.                                           *)
(***************************************************************************)
\* players.select (is_host) and games.select (status)
Start_Check(i, p) ==
  /\ FreeSlot(i)
  /\ players[p].joined
  /\ p = Host
  /\ game.status = "lobby"
  /\ requests' = [requests EXCEPT ![i] =
                    [Idle EXCEPT !.op = "start", !.pc = "count_players"]]
  /\ UNCHANGED <<dbVars, deployment, time_up, tracker, capacity, history, scorerVars>>

\* players.select count; then the random first round type and topic
Start_CountPlayers(i) ==
  /\ requests[i].op = "start" /\ requests[i].pc = "count_players"
  /\ IF Cardinality(Joined) < MinPlayersToStart
     THEN Finish(i)
     ELSE \E type \in RoundTypes : \E topic \in TopicIds(type) :
            requests' = [requests EXCEPT ![i] =
                           [@ EXCEPT !.pc = "update_status", !.type = type,
                                     !.topic_id = topic]]
  /\ UNCHANGED <<dbVars, deployment, time_up, tracker, capacity, overlaps, history, scorerVars>>

\* games.update({ status: 'in-progress' }), then fetch start-round with
\* currentRoundNumber 1, roundType and topicId
Start_UpdateStatus(i) ==
  /\ requests[i].op = "start" /\ requests[i].pc = "update_status"
  /\ game' = [game EXCEPT !.status = "in-progress"]
  /\ requests' = [requests EXCEPT ![i] =
                    [@ EXCEPT !.op = "start-round", !.pc = "get_game",
                              !.round = 1]]
  /\ UNCHANGED <<players, rounds, submissions, round_scores, deployment, time_up, tracker, capacity, overlaps,
                 history, scorerVars>>

Start(i) ==
  \/ \E p \in PlayerIds : Start_Check(i, p)
  \/ Start_CountPlayers(i)
  \/ Start_UpdateStatus(i)

Next ==
  \/ \E p \in PlayerIds : Join(p)
  \/ \E p \in PlayerIds, r \in RoundNos, w \in LifecycleWords :
       SubmitWord(p, r, w)
  \/ \E i \in ReqIds : Start(i)
  \/ \E i \in ReqIds : StartRound(i)
  \/ \E i \in ReqIds : EndRound(i)

Spec == Init /\ [][Next]_vars

SpecRace == InitRace /\ [][Next]_vars

\* requests served one after the other, with pools of NumPoolTopics topics
InitTopics ==
  /\ InitDb
  /\ NoTracker
  /\ NoTimeUp
  /\ route \in {"A", "B"}
  /\ topics = Pools(NumPoolTopics)
  /\ overlaps = 0
  /\ capacity = MaxRaceSubmissions
  /\ NoScorer

SpecTopics == InitTopics /\ [][Next]_vars

(***************************************************************************)
(* The edge function handle-game-logic, action 'start-game': startGame     *)
(* takes the game id only.  It updates the games row, then inserts round   *)
(* 1; the insert fails on UNIQUE(game_id, round_number) where round 1      *)
(* exists, and the update stays.                                           *)
(***************************************************************************)
EdgeStartGame ==
  /\ \A i \in ReqIds : requests[i].op = "idle"
  /\ game' = [game EXCEPT !.status = "in-progress", !.current_round = 1,
                          !.round_count = 1]
  /\ IF rounds[1].exists
     THEN UNCHANGED rounds
     ELSE \E type \in RoundTypes : \E topic \in TopicIds(type) :
            rounds' = [rounds EXCEPT ![1] = NewRound(type, topic)]
  /\ UNCHANGED <<players, submissions, round_scores, deployment, time_up, tracker, capacity,
                 overlaps, requests, history, scorerVars>>

NextEdge == Next \/ EdgeStartGame

\* the API routes and the edge function side by side, requests served one
\* after the other
InitEdge ==
  /\ InitDb
  /\ NoTracker
  /\ NoTimeUp
  /\ route \in {"A", "B"}
  /\ topics = Pools(NumTopics)
  /\ overlaps = 0
  /\ capacity = MaxRaceSubmissions
  /\ NoScorer

SpecEdge == InitEdge /\ [][NextEdge]_vars

(***************************************************************************)
(* Failing writes.  round_scores.insert may fail for a cause other than    *)
(* the UNIQUE constraint (the connection, the database); saveRoundScores   *)
(* does not look at the result and goes on to update_player_score.         *)
(***************************************************************************)
EndRound_InsertScoreFails(i) ==
  /\ requests[i].op = "end-round" /\ requests[i].pc = "insert_score"
  /\ Cardinality(faults) < MaxFaults
  /\ LET p == Head(requests[i].todo)
         r == requests[i].round
     IN /\ ~HasScoreRow(r, p)
        /\ faults' = faults \cup {[round_id |-> r, player_id |-> p]}
  /\ requests' = [requests EXCEPT ![i] =
                    [@ EXCEPT !.pc = "update_player", !.failed = TRUE]]
  /\ UNCHANGED <<dbVars, deployment, time_up, tracker, capacity, overlaps, score_updates,
                 scorerVars>>

NextFault == Next \/ \E i \in ReqIds : EndRound_InsertScoreFails(i)

\* requests served one after the other, with up to MaxFaults failing inserts
InitFault ==
  /\ InitDb
  /\ NoTracker
  /\ NoTimeUp
  /\ route \in {"A", "B"}
  /\ topics = Pools(NumTopics)
  /\ overlaps = 0
  /\ capacity = MaxSubmissions
  /\ NoScorer

SpecFault == InitFault /\ [][NextFault]_vars

(***************************************************************************)
(* submissionOperations.saveSubmission (and submitWord of the edge         *)
(* function, which has the same steps): select the row of (round, player,  *)
(* word), then update its is_final or insert a new row.  Here the rows of  *)
(* submissions carry is_final, and the words are saved as they are given.  *)
(***************************************************************************)
SaveRoundIds == {1}
SaveWords == {Cat, Dog}

SameTriple(row, r, p, w) ==
  row.round_id = r /\ row.player_id = p /\ row.word = w

TripleRows(r, p, w) == {row \in submissions : SameTriple(row, r, p, w)}

\* the select: existingSubmission is the row, or null
Save_Select(i, r, p, w, isFinal) ==
  /\ FreeSlot(i)
  /\ requests' = [requests EXCEPT ![i] =
                    [op |-> "save", pc |-> "write", round_id |-> r,
                     player_id |-> p, word |-> w, is_final |-> isFinal,
                     existing |-> TripleRows(r, p, w) # {}]]
  /\ UNCHANGED <<dbVars, deployment, time_up, tracker, capacity, history, scorerVars>>

\* the insert without UNIQUE(round_id, player_id, word)
Save_WriteUnconstrained(i) ==
  /\ requests[i].op = "save" /\ requests[i].pc = "write"
  /\ LET q == requests[i]
         new == [round_id |-> q.round_id, player_id |-> q.player_id,
                 word |-> q.word, is_final |-> q.is_final]
     IN submissions' =
          IF q.existing
          THEN {IF SameTriple(row, q.round_id, q.player_id, q.word)
                THEN new ELSE row : row \in submissions}
          ELSE submissions \cup {new}
  /\ Finish(i)
  /\ UNCHANGED <<game, players, rounds, round_scores, deployment, time_up, tracker, capacity,
                 overlaps, history, scorerVars>>

\* update({ is_final }).eq('id', existingSubmission.id), or insert(...): the
\* insert fails on UNIQUE(round_id, player_id, word) where the row has been
\* inserted since the select, and the error is thrown
Save_Write(i) ==
  /\ requests[i].op = "save" /\ requests[i].pc = "write"
  /\ LET q == requests[i]
         new == [round_id |-> q.round_id, player_id |-> q.player_id,
                 word |-> q.word, is_final |-> q.is_final]
     IN submissions' =
          IF q.existing
          THEN {IF SameTriple(row, q.round_id, q.player_id, q.word)
                THEN new ELSE row : row \in submissions}
          ELSE IF TripleRows(q.round_id, q.player_id, q.word) # {}
               THEN submissions
               ELSE submissions \cup {new}
  /\ Finish(i)
  /\ UNCHANGED <<game, players, rounds, round_scores, deployment, time_up, tracker, capacity,
                 overlaps, history, scorerVars>>

saveSubmission(i) ==
  \/ \E r \in SaveRoundIds, p \in PlayerIds, w \in SaveWords,
        isFinal \in BOOLEAN : Save_Select(i, r, p, w, isFinal)
  \/ Save_Write(i)

NextSave == \E i \in ReqIds : saveSubmission(i)

\* saves of several clients, up to MaxOverlaps of them arriving while
\* another is in flight
InitSave ==
  /\ InitDb
  /\ NoTracker
  /\ NoTimeUp
  /\ route = "A"
  /\ topics = Pools(NumTopics)
  /\ overlaps = MaxOverlaps
  /\ capacity = 0
  /\ NoScorer

SpecSave == InitSave /\ [][NextSave]_vars

(***************************************************************************)
(* getRandomTopic and TopicsTracker on their own: the pools are any sets   *)
(* of up to NumDrawTopics topics, the empty pool included.  The function   *)
(* is called through the tracker, which passes and extends its own used-id *)
(* list, or with a used-id list the caller has built from the rounds.      *)
(***************************************************************************)
\* what indexing an array out of its range gives
Undefined == 0

\* topics[roundType].filter(topic => !usedTopicIds.includes(topic.id))
filterUnused(pool, usedIds) ==
  {t \in pool : \A k \in 1..Len(usedIds) : usedIds[k] # t}

\* the filter alone, without the reset
availableTopicsNoReset(pool, usedIds) == filterUnused(pool, usedIds)

\* availableTopics: the unused topics, or all topics again when none is left
availableTopics(pool, usedIds) ==
  IF filterUnused(pool, usedIds) = {} THEN pool
  ELSE filterUnused(pool, usedIds)

\* availableTopics[Math.floor(Math.random() * availableTopics.length)]
randomElement(available) ==
  IF available = {} THEN {Undefined} ELSE available

\* the outcomes of getRandomTopic(topics, roundType, usedTopicIds)
getRandomTopic(type, usedIds) ==
  IF topics[type] = {}
  THEN {[called |-> TRUE, type |-> type, used |-> usedIds,
         topic |-> Undefined, error |-> TRUE]}
  ELSE {[called |-> TRUE, type |-> type, used |-> usedIds, topic |-> t,
         error |-> FALSE] :
          t \in randomElement(availableTopics(topics[type], usedIds))}

\* the used-id lists a caller may hand over
RECURSIVE IdListsUpTo(_)
IdListsUpTo(n) ==
  IF n = 0 THEN {<<>>}
  ELSE IdListsUpTo(n - 1) \cup
       {Append(l, t) : l \in {x \in IdListsUpTo(n - 1) : Len(x) = n - 1},
                       t \in 1..NumTopicIds}

\* TopicsTracker.getTopicForRoundType: draw, then push the topic's id
getTopicForRoundType(type) ==
  /\ Len(usedTopicIds[type]) < MaxUsedIds
  /\ \E d \in getRandomTopic(type, usedTopicIds[type]) :
       /\ drawn' = d
       /\ usedTopicIds' = IF d.error \/ d.topic = Undefined
                          THEN usedTopicIds
                          ELSE [usedTopicIds EXCEPT ![type] = Append(@, d.topic)]
  /\ UNCHANGED <<dbVars, deployment, time_up, overlaps, capacity, requests, history,
                 scorerVars>>

\* TopicsTracker.reset
reset ==
  /\ \E type \in RoundTypes : usedTopicIds[type] # <<>>
  /\ usedTopicIds' = [type \in RoundTypes |-> <<>>]
  /\ UNCHANGED <<dbVars, deployment, time_up, overlaps, capacity, requests, history,
                 scorerVars, drawn>>

\* getRandomTopic called with the used ids collected from the game's rounds,
\* by a caller that keeps no tracker
DrawWithList(type, usedIds) ==
  /\ \A t \in RoundTypes : usedTopicIds[t] = <<>>
  /\ drawn' \in getRandomTopic(type, usedIds)
  /\ UNCHANGED <<dbVars, deployment, time_up, overlaps, capacity, requests, history,
                 scorerVars, usedTopicIds>>

NextDraw ==
  \/ \E type \in RoundTypes : getTopicForRoundType(type)
  \/ reset
  \/ \E type \in RoundTypes, usedIds \in IdListsUpTo(MaxListedIds) :
       DrawWithList(type, usedIds)

InitDraw ==
  /\ InitDb
  /\ NoTracker
  /\ NoTimeUp
  /\ route = "A"
  /\ topics \in [RoundTypes -> SUBSET (1..NumDrawTopics)]
  /\ overlaps = 0
  /\ capacity = 0
  /\ NoScorer

SpecDraw == InitDraw /\ [][NextDraw]_vars

(***************************************************************************)
(* The clock.  time_per_round seconds after its start_time the round in    *)
(* play has run out of time; no handler reads the clock for anything but   *)
(* the timestamps it writes.                                               *)
(***************************************************************************)
TimeElapses(r) ==
  /\ r = game.current_round
  /\ rounds[r].exists /\ rounds[r].end_time = 0
  /\ ~time_up[r]
  /\ time_up' = [time_up EXCEPT ![r] = TRUE]
  /\ UNCHANGED <<dbVars, deployment, tracker, overlaps, capacity, requests,
                 history, scorerVars>>

NextClock == Next \/ \E r \in RoundNos : TimeElapses(r)

InitClock ==
  /\ InitDb
  /\ NoTracker
  /\ NoTimeUp
  /\ route \in {"A", "B"}
  /\ topics = Pools(NumTopics)
  /\ overlaps = 0
  /\ capacity = MaxRaceSubmissions
  /\ NoScorer

SpecClock == InitClock /\ [][NextClock]_vars

(***************************************************************************)
(* join, one database operation per step, next to start: the game was      *)
(* created with maxPlayers = SmallMaxPlayers, and up to MaxOverlaps        *)
(* requests arrive while another is in flight.                             *)
(***************************************************************************)
JoinPlayerIds == 1..NumJoinPlayers

\* the rows join requests in flight are about to insert
Joining == {requests[i].player : i \in {j \in ReqIds : requests[j].op = "join"}}

\* games.select('*').eq('code', gameCode): a game not in lobby ends the call
Join_GetGame(i, p) ==
  /\ FreeSlot(i)
  /\ p \in DOMAIN players /\ ~players[p].joined /\ p \notin Joining
  /\ game.status = "lobby"
  /\ requests' = [requests EXCEPT ![i] =
                    [op |-> "join", pc |-> "get_players", player |-> p,
                     max_players |-> game.max_players]]
  /\ UNCHANGED <<dbVars, deployment, time_up, tracker, capacity, history,
                 scorerVars>>

\* players.select('*').eq('game_id', game.id): "Game is full" ends the call
Join_GetPlayers(i) ==
  /\ requests[i].op = "join" /\ requests[i].pc = "get_players"
  /\ IF Cardinality(Joined) >= requests[i].max_players
     THEN Finish(i)
     ELSE Goto(i, "insert")
  /\ UNCHANGED <<dbVars, deployment, time_up, tracker, capacity, overlaps,
                 history, scorerVars>>

\* players.insert([{ ..., is_host: false }])
Join_Insert(i) ==
  /\ requests[i].op = "join" /\ requests[i].pc = "insert"
  /\ players' = [players EXCEPT ![requests[i].player].joined = TRUE]
  /\ Finish(i)
  /\ UNCHANGED <<game, rounds, submissions, round_scores, deployment, time_up,
                 tracker, capacity, overlaps, history, scorerVars>>

JoinRequest(i) ==
  \/ \E p \in JoinPlayerIds : Join_GetGame(i, p)
  \/ Join_GetPlayers(i)
  \/ Join_Insert(i)

NextJoin ==
  \/ \E i \in ReqIds : JoinRequest(i)
  \/ \E i \in ReqIds : Start(i)
  \/ \E i \in ReqIds :
       \/ StartRound_GetGame(i)
       \/ StartRound_CheckRound(i)
       \/ StartRound_InsertRound(i)
       \/ StartRound_UpdateCurrent(i)

InitJoin ==
  /\ game = [status |-> "lobby", current_round |-> 0,
             round_count |-> DefaultRoundCount,
             max_players |-> SmallMaxPlayers]
  /\ players = [p \in JoinPlayerIds |-> [joined |-> p = Host, score |-> 0]]
  /\ rounds = [n \in RoundNos |-> NoRound]
  /\ submissions = {}
  /\ round_scores = {}
  /\ requests = [i \in ReqIds |-> Idle]
  /\ score_updates = [r \in RoundNos |-> [p \in PlayerIds |-> 0]]
  /\ faults = {}
  /\ NoTracker
  /\ NoTimeUp
  /\ route \in {"A", "B"}
  /\ topics = Pools(NumTopics)
  /\ overlaps = MaxOverlaps
  /\ capacity = 0
  /\ NoScorer

SpecJoin == InitJoin /\ [][NextJoin]_vars

(***************************************************************************)
(* The useGame hook's startGame: updateGameStatus(gameId, 'in-progress'),  *)
(* then gameOperations.startNewRound(gameId, 1, roundType, topic.name),    *)
(* which updates the games row first and inserts the round after; the      *)
(* result of the update is not read, an insert error is thrown.            *)
(***************************************************************************)
\* gameOperations.updateGameStatus(gameId, 'in-progress'), then the random
\* round type and the tracker's topic
useGame_UpdateStatus(i) ==
  /\ FreeSlot(i)
  /\ game' = [game EXCEPT !.status = "in-progress"]
  /\ \E type \in RoundTypes : \E topic \in TopicIds(type) :
       requests' = [requests EXCEPT ![i] =
                      [Idle EXCEPT !.op = "useGame-start",
                                   !.pc = "update_current", !.round = 1,
                                   !.type = type, !.topic_id = topic]]
  /\ UNCHANGED <<players, rounds, submissions, round_scores, deployment,
                 time_up, tracker, capacity, history, scorerVars>>

\* games.update({ current_round: roundNumber, round_count: roundNumber })
startNewRound_UpdateGame(i) ==
  /\ requests[i].op = "useGame-start" /\ requests[i].pc = "update_current"
  /\ game' = [game EXCEPT !.current_round = requests[i].round,
                          !.round_count = requests[i].round]
  /\ Goto(i, "insert_round")
  /\ UNCHANGED <<players, rounds, submissions, round_scores, deployment,
                 time_up, tracker, capacity, overlaps, history, scorerVars>>

\* rounds.insert({ round_number: roundNumber, ... }); an error is thrown
startNewRound_InsertRound(i) ==
  /\ requests[i].op = "useGame-start" /\ requests[i].pc = "insert_round"
  /\ IF rounds[requests[i].round].exists
     THEN UNCHANGED rounds
     ELSE rounds' = [rounds EXCEPT ![requests[i].round] =
                       NewRound(requests[i].type, requests[i].topic_id)]
  /\ Finish(i)
  /\ UNCHANGED <<game, players, submissions, round_scores, deployment,
                 time_up, tracker, capacity, overlaps, history, scorerVars>>

useGame_startGame(i) ==
  \/ useGame_UpdateStatus(i)
  \/ startNewRound_UpdateGame(i)
  \/ startNewRound_InsertRound(i)

NextHook == Next \/ \E i \in ReqIds : useGame_startGame(i)

\* the API routes and the hook side by side, requests served one after the
\* other
InitHook ==
  /\ InitDb
  /\ NoTracker
  /\ NoTimeUp
  /\ route \in {"A", "B"}
  /\ topics = Pools(NumTopics)
  /\ overlaps = 0
  /\ capacity = MaxRaceSubmissions
  /\ NoScorer

SpecHook == InitHook /\ [][NextHook]_vars

(***************************************************************************)
(* The edge function's calculate-scores action, one database operation per *)
(* step: it reads the round, its submissions and the game's players, then  *)
(* for each player with a submission inserts the round score and writes    *)
(* the player's total as the score it read plus the round score.  The game *)
(* has played NumApplyRounds rounds in which every player submitted one    *)
(* word, and the action is called once for each round.                     *)
(***************************************************************************)
ApplyRounds == 1..NumApplyRounds
ApplyWords == {Cat, Dog}

\* "Group submissions by player": submissionsByPlayer[sub.player_id].push(sub.word)
RECURSIVE groupSubmissions(_, _)
groupSubmissions(submissionsByPlayer, rows) ==
  IF rows = <<>> THEN submissionsByPlayer
  ELSE groupSubmissions(
         PushWord(submissionsByPlayer, Head(rows).player_id, Head(rows).word,
                  TRUE),
         Tail(rows))

\* rounds.select('*').eq('id', roundId).single()
calculateScores_GetRound(i, r) ==
  /\ FreeSlot(i)
  /\ rounds[r].exists
  /\ \A p \in PlayerIds : ~HasScoreRow(r, p)
  /\ \A j \in ReqIds : requests[j].op = "calculate-scores" => requests[j].round # r
  /\ requests' = [requests EXCEPT ![i] =
                    [op |-> "calculate-scores", pc |-> "get_submissions",
                     round |-> r, type |-> rounds[r].type,
                     submissions |-> <<>>, players |-> <<>>,
                     scores |-> <<>>, todo |-> <<>>]]
  /\ UNCHANGED <<dbVars, deployment, time_up, tracker, capacity, history, scorerVars>>

\* submissions.select('*').eq('round_id', roundId)
calculateScores_GetSubmissions(i) ==
  /\ requests[i].op = "calculate-scores" /\ requests[i].pc = "get_submissions"
  /\ \E order \in RowOrders({s \in submissions : s.round_id = requests[i].round}) :
       requests' = [requests EXCEPT ![i] =
                      [@ EXCEPT !.pc = "get_players", !.submissions = order]]
  /\ UNCHANGED <<dbVars, deployment, time_up, tracker, capacity, overlaps, history, scorerVars>>

\* players.select('*').eq('game_id', round.game_id), then the scores
calculateScores_GetPlayers(i) ==
  /\ requests[i].op = "calculate-scores" /\ requests[i].pc = "get_players"
  /\ LET submissionsByPlayer == groupSubmissions(<<>>, requests[i].submissions)
     IN requests' = [requests EXCEPT ![i] =
          [@ EXCEPT !.pc = IF submissionsByPlayer = <<>> THEN "idle"
                           ELSE "insert_score",
                    !.op = IF submissionsByPlayer = <<>> THEN "idle" ELSE @,
                    !.players = [p \in Joined |-> players[p].score],
                    !.scores = calculateScores(submissionsByPlayer,
                                               requests[i].type),
                    !.todo = KeyOrder(submissionsByPlayer)]]
  /\ UNCHANGED <<dbVars, deployment, time_up, tracker, capacity, overlaps, history, scorerVars>>

\* round_scores.insert({ round_id, player_id, score }); an error is thrown
calculateScores_InsertScore(i) ==
  /\ requests[i].op = "calculate-scores" /\ requests[i].pc = "insert_score"
  /\ LET p == Head(requests[i].todo)
         r == requests[i].round
     IN IF HasScoreRow(r, p)
        THEN Finish(i) /\ UNCHANGED round_scores
        ELSE /\ round_scores' = round_scores \cup
                  {[round_id |-> r, player_id |-> p,
                    score |-> requests[i].scores[p],
                    bonus_awarded |-> FALSE]}
             /\ Goto(i, "update_player")
  /\ UNCHANGED <<game, players, rounds, submissions, deployment, time_up, tracker, capacity, overlaps,
                 history, scorerVars>>

\* players.update({ score: player.score + roundScore }).eq('id', playerId)
\* with player taken from the players read at the start
calculateScores_UpdatePlayer(i) ==
  /\ requests[i].op = "calculate-scores" /\ requests[i].pc = "update_player"
  /\ LET p == Head(requests[i].todo)
     IN /\ players' = IF p \in DOMAIN requests[i].players
                      THEN [players EXCEPT ![p].score =
                              requests[i].players[p] + requests[i].scores[p]]
                      ELSE players
        /\ IF Tail(requests[i].todo) = <<>>
           THEN Finish(i)
           ELSE requests' = [requests EXCEPT ![i] =
                               [@ EXCEPT !.todo = Tail(@),
                                         !.pc = "insert_score"]]
  /\ UNCHANGED <<game, rounds, submissions, round_scores, deployment, time_up, tracker, capacity,
                 overlaps, history, scorerVars>>

calculateScoresRequest(i) ==
  \/ \E r \in ApplyRounds : calculateScores_GetRound(i, r)
  \/ calculateScores_GetSubmissions(i)
  \/ calculateScores_GetPlayers(i)
  \/ calculateScores_InsertScore(i)
  \/ calculateScores_UpdatePlayer(i)

NextApply == \E i \in ReqIds : calculateScoresRequest(i)

\* the game after NumApplyRounds rounds in which every player submitted one
\* word, before any score was calculated
InitApply ==
  /\ game = [status |-> "in-progress", current_round |-> NumApplyRounds,
             round_count |-> DefaultRoundCount,
             max_players |-> DefaultMaxPlayers]
  /\ players = [p \in PlayerIds |-> [joined |-> TRUE, score |-> 0]]
  /\ \E types \in [ApplyRounds -> RoundTypes] :
       rounds = [n \in RoundNos |->
                   IF n \in ApplyRounds
                   THEN [exists |-> TRUE, type |-> types[n], topic_id |-> 1,
                         end_time |-> IF n < NumApplyRounds THEN 1 ELSE 0]
                   ELSE NoRound]
  /\ \E word \in [ApplyRounds \X PlayerIds -> ApplyWords] :
       submissions = {[round_id |-> r, player_id |-> p, word |-> word[<<r, p>>]] :
                        r \in ApplyRounds, p \in PlayerIds}
  /\ round_scores = {}
  /\ requests = [i \in ReqIds |-> Idle]
  /\ score_updates = [r \in RoundNos |-> [p \in PlayerIds |-> 0]]
  /\ faults = {}
  /\ NoTracker
  /\ NoTimeUp
  /\ route \in {"A", "B"}
  /\ topics = Pools(NumTopics)
  /\ overlaps = MaxOverlaps
  /\ capacity = 0
  /\ NoScorer

SpecApply == InitApply /\ [][NextApply]_vars

TypeOK ==
  /\ game.status \in {"lobby", "in-progress", "completed"}
  /\ game.current_round \in RoundNos
  /\ \A p \in PlayerIds : players[p].score \in Nat

(***************************************************************************)
(* The scorer on its own: the input is any object of up to                 *)
(* NumScorerPlayers players with up to MaxListLen words each, or the       *)
(* input of examples/scoring-example.ts; the one step is the call.         *)
(***************************************************************************)
RECURSIVE ListsUpTo(_)
ListsUpTo(n) ==
  IF n = 0 THEN {<<>>}
  ELSE ListsUpTo(n - 1) \cup
       {Append(l, w) : l \in {x \in ListsUpTo(n - 1) : Len(x) = n - 1},
                       w \in Vocabulary}

ScorerInputs ==
  UNION {{[i \in 1..n |-> [id |-> i, words |-> f[i]]] :
            f \in [1..n -> ListsUpTo(MaxListLen)]} : n \in 0..NumScorerPlayers}

\* const playerWords of examples/scoring-example.ts
ExamplePlayerWords ==
  LET cat == <<"c", "a", "t">>
      dog == <<"d", "o", "g">>
      fish == <<"f", "i", "s", "h">>
      bird == <<"b", "i", "r", "d">>
      hamster == <<"h", "a", "m", "s", "t", "e", "r">>
      rabbit == <<"r", "a", "b", "b", "i", "t">>
      snake == <<"s", "n", "a", "k", "e">>
      lizard == <<"l", "i", "z", "a", "r", "d">>
      turtle == <<"t", "u", "r", "t", "l", "e">>
      frog == <<"f", "r", "o", "g">>
  IN << [id |-> 1, words |-> <<cat, dog, fish, bird, hamster>>],
        [id |-> 2, words |-> <<cat, dog, rabbit, snake, lizard>>],
        [id |-> 3, words |-> <<cat, dog, fish, turtle, frog>>] >>

\* const perfectMatchExample of examples/scoring-example.ts
perfectMatchExample ==
  LET cat == <<"c", "a", "t">>
      dog == <<"d", "o", "g">>
      fish == <<"f", "i", "s", "h">>
      bird == <<"b", "i", "r", "d">>
      hamster == <<"h", "a", "m", "s", "t", "e", "r">>
      rabbit == <<"r", "a", "b", "b", "i", "t">>
      snake == <<"s", "n", "a", "k", "e">>
  IN << [id |-> 1, words |-> <<cat, dog, fish>>],
        [id |-> 2, words |-> <<cat, dog, fish, bird, hamster>>],
        [id |-> 3, words |-> <<cat, dog, fish, rabbit, snake>>] >>

\* const perfectUnmatchExample of examples/scoring-example.ts
perfectUnmatchExample ==
  LET unique(digits) == <<"u", "n", "i", "q", "u", "e">> \o digits
      shared(digits) == <<"s", "h", "a", "r", "e", "d">> \o digits
  IN << [id |-> 1, words |-> <<unique(<<"1">>), unique(<<"2">>),
                               unique(<<"3">>), unique(<<"4">>),
                               unique(<<"5">>)>>],
        [id |-> 2, words |-> <<shared(<<"1">>), shared(<<"2">>),
                               unique(<<"6">>), unique(<<"7">>),
                               unique(<<"8">>)>>],
        [id |-> 3, words |-> <<shared(<<"1">>), shared(<<"2">>),
                               unique(<<"9">>), unique(<<"1", "0">>),
                               unique(<<"1", "1">>)>>] >>

\* the inputs the scoring examples call the scorer with
ExampleInputs ==
  {ExamplePlayerWords, perfectMatchExample, perfectUnmatchExample}

InitScorer ==
  /\ InitDb
  /\ NoTracker
  /\ NoTimeUp
  /\ route = "A"
  /\ topics = Pools(NumTopics)
  /\ overlaps = 0
  /\ capacity = 0
  /\ playerWordsIn \in ScorerInputs \cup ExampleInputs
  /\ roundTypeIn \in RoundTypes
  /\ scoresOut = NotScored

ScoreMatch ==
  /\ roundTypeIn = "match"
  /\ ~scoresOut.done
  /\ scoresOut' = Scored(calculateMatchRoundScores(playerWordsIn))
  /\ UNCHANGED <<dbVars, deployment, time_up, tracker, overlaps, capacity, requests, history,
                 playerWordsIn, roundTypeIn>>

ScoreUnmatch ==
  /\ roundTypeIn = "unmatch"
  /\ ~scoresOut.done
  /\ scoresOut' = Scored(calculateUnmatchRoundScores(playerWordsIn))
  /\ UNCHANGED <<dbVars, deployment, time_up, tracker, overlaps, capacity, requests, history,
                 playerWordsIn, roundTypeIn>>

NextScorer == ScoreMatch \/ ScoreUnmatch

SpecScorer == InitScorer /\ [][NextScorer]_vars

(***************************************************************************)
(* Helpers for the properties.                                             *)
(***************************************************************************)
Quiescent == \A i \in ReqIds : requests[i].op = "idle"

\* the host has started the game
Started == game.status # "lobby"

\* the round numbers a game's rounds are meant to carry
PlayedRounds == 1..MaxRoundNo

Closed(r) == rounds[r].exists /\ rounds[r].end_time # 0
Open(r) == rounds[r].exists /\ rounds[r].end_time = 0

ScoreRows(r) == {row \in round_scores : row.round_id = r}

RECURSIVE SumScores(_)
SumScores(rows) ==
  IF rows = {} THEN 0
  ELSE LET row == CHOOSE x \in rows : TRUE
       IN row.score + SumScores(rows \ {row})

\* the sum of a player's round_scores rows over the closed rounds
ClosedRoundTotal(p) ==
  SumScores({row \in round_scores : row.player_id = p /\ Closed(row.round_id)})

\* a step of an end-round request that found its round already closed
RepeatedCloseStep ==
  \/ \E i \in ReqIds, r \in PlayedRounds :
       /\ Closed(r)
       /\ requests[i].op = "idle"
       /\ requests'[i].op = "end-round" /\ requests'[i].round = r
  \/ \E i \in ReqIds :
       /\ requests[i].op = "end-round"
       /\ requests[i].round \in PlayedRounds
       /\ rounds[requests[i].round].end_time >= 2
       /\ requests'[i] # requests[i]

(***************************************************************************)
(* C1.  Closing a round twice: in a started game, with requests served one *)
(* after the other, the second end-round call on a round is a no-op.  Even *)
(* leaving the rewritten end_time aside, it changes no round_scores row,   *)
(* no player total and no field of the game, and it creates no round.      *)
(***************************************************************************)
C1_SecondCloseIsNoOp ==
  [][Started /\ RepeatedCloseStep
       => /\ UNCHANGED <<round_scores, players, game>>
          /\ \A n \in RoundNos : rounds'[n].exists = rounds[n].exists]_vars

(***************************************************************************)
(* C2.  When two end-round requests for the same round of a started game   *)
(* are in flight together, update_player_score has run at most once for    *)
(* every player with a positive score in that round.                       *)
(***************************************************************************)
C2_AtMostOneScoringPass ==
  \A i, j \in ReqIds :
    /\ i # j
    /\ Started
    /\ requests[i].round \in PlayedRounds
    /\ requests[i].op = "end-round" /\ requests[j].op = "end-round"
    /\ requests[i].round = requests[j].round
    => \A p \in PlayerIds :
         (\E row \in ScoreRows(requests[i].round) :
            row.player_id = p /\ row.score > 0)
           => score_updates[requests[i].round][p] <= 1

(***************************************************************************)
(* C3.  A player's total equals the sum of the player's round scores over  *)
(* the closed rounds; stated for the states of a started game in which no  *)
(* request is in flight, where no write is pending.                        *)
(***************************************************************************)
C3_TotalIsSumOfRoundScores ==
  Started /\ Quiescent => \A p \in PlayerIds : players[p].score = ClosedRoundTotal(p)

(***************************************************************************)
(* C4.  A round of a started game has round_scores rows if and only if its *)
(* end_time is set.                                                        *)
(***************************************************************************)
C4_ScoredIffClosed ==
  Started =>
    \A r \in PlayedRounds :
      rounds[r].exists => (ScoreRows(r) # {} <=> Closed(r))

(***************************************************************************)
(* C5.  With round_count = 5 a started game is completed exactly when      *)
(* round 5 is closed: once the request that closed round 5 has returned    *)
(* the status is completed, and the status is completed only if round 5    *)
(* exists and is closed.                                                   *)
(***************************************************************************)
C5_CompletedIffLastRoundClosed ==
  /\ Quiescent /\ Started /\ Closed(DefaultRoundCount)
       => game.status = "completed"
  /\ game.status = "completed" => Closed(DefaultRoundCount)

(***************************************************************************)
(* C6.  No round numbered above the game's round_count exists, however the *)
(* start, start-round and end-round requests of a started game interleave. *)
(***************************************************************************)
C6_NoRoundBeyondRoundCount ==
  Started => \A n \in RoundNos : rounds[n].exists => n <= game.round_count

(***************************************************************************)
(* C7.  completed is terminal: from a completed game no step creates a     *)
(* round, changes the status or changes a player's score.                  *)
(***************************************************************************)
C7_CompletedIsTerminal ==
  [][game.status = "completed" =>
       /\ game'.status = "completed"
       /\ \A n \in RoundNos : rounds'[n].exists = rounds[n].exists
       /\ \A p \in PlayerIds : players'[p].score = players[p].score]_vars

(***************************************************************************)
(* C8.  In a game whose rounds 1..round_count have all been played and     *)
(* closed the round types alternate: for n >= 2 the type of round n        *)
(* differs from the type of round n - 1.                                   *)
(***************************************************************************)
C8_TypesAlternate ==
  Started /\ (\A n \in 1..DefaultRoundCount : Closed(n)) =>
    \A n \in 2..DefaultRoundCount : rounds[n].type # rounds[n - 1].type

(***************************************************************************)
(* C9.  At most one round of a started game has a null end_time.           *)
(***************************************************************************)
C9_AtMostOneOpenRound ==
  Started => Cardinality({r \in PlayedRounds : Open(r)}) <= 1

\* the positions of p's list that hold a non-empty word another player also has
SharedOccurrences(playerWords, p) ==
  {i \in 1..Len(WordsOf(playerWords, p)) :
     LET n == normalizedWord(WordsOf(playerWords, p)[i])
     IN /\ n # <<>>
        /\ \E q \in Keys(playerWords) \ {p} :
             \E j \in 1..Len(WordsOf(playerWords, q)) :
               normalizedWord(WordsOf(playerWords, q)[j]) = n}

\* a player's points without the bonus point
WordPoints(s) == s.score - (IF s.bonusAwarded THEN 1 ELSE 0)

(***************************************************************************)
(* C10.  In a match round a player's points, the bonus aside, are the      *)
(* number of occurrences in the player's own list of words that a          *)
(* different player also submitted: +1 per occurrence of a word shared by  *)
(* two or more distinct players, 0 for a word only that player submitted,  *)
(* however often the player repeats it.                                    *)
(***************************************************************************)
C10_MatchPointsPerSharedOccurrence ==
  scoresOut.done /\ roundTypeIn = "match" =>
    \A p \in Keys(playerWordsIn) :
      WordPoints(scoresOut.scores[p])
        = Cardinality(SharedOccurrences(playerWordsIn, p))

\* some other player's list holds the normalized word n
OthersHave(playerWords, p, n) ==
  \E q \in Keys(playerWords) \ {p} :
    \E j \in 1..Len(WordsOf(playerWords, q)) :
      normalizedWord(WordsOf(playerWords, q)[j]) = n

\* the positions of p's list that hold a non-empty word
ValidPositions(playerWords, p) ==
  {i \in 1..Len(WordsOf(playerWords, p)) :
     normalizedWord(WordsOf(playerWords, p)[i]) # <<>>}

\* the positions of p's list that hold a non-empty word no other player has
UniqueOccurrences(playerWords, p) ==
  {i \in ValidPositions(playerWords, p) :
     ~OthersHave(playerWords, p, normalizedWord(WordsOf(playerWords, p)[i]))}

(***************************************************************************)
(* C11.  In an unmatch round a player's points, the bonus aside, are the   *)
(* number of occurrences in the player's own list of words that no other   *)
(* player submitted: +1 per occurrence of a word only that player has, 0   *)
(* for a word two or more distinct players share.                          *)
(***************************************************************************)
C11_UnmatchPointsPerUniqueOccurrence ==
  scoresOut.done /\ roundTypeIn = "unmatch" =>
    \A p \in Keys(playerWordsIn) :
      WordPoints(scoresOut.scores[p])
        = Cardinality(UniqueOccurrences(playerWordsIn, p))

\* the round type's predicate on a word of p: shared with another player in
\* a match round, submitted by no other player in an unmatch round
RoundPredicate(type, playerWords, p, n) ==
  IF type = "match" THEN OthersHave(playerWords, p, n)
  ELSE ~OthersHave(playerWords, p, n)

(***************************************************************************)
(* C12.  In both round types bonusAwarded is true exactly when the player  *)
(* submitted at least one non-empty word and every non-empty word of the   *)
(* player satisfies the round's predicate: another player also submitted   *)
(* it (match), no other player submitted it (unmatch).                     *)
(***************************************************************************)
C12_BonusIffAllWordsSatisfyPredicate ==
  scoresOut.done =>
    \A p \in Keys(playerWordsIn) :
      scoresOut.scores[p].bonusAwarded
        <=> /\ ValidPositions(playerWordsIn, p) # {}
            /\ \A i \in ValidPositions(playerWordsIn, p) :
                 RoundPredicate(roundTypeIn, playerWordsIn, p,
                                normalizedWord(WordsOf(playerWordsIn, p)[i]))

(***************************************************************************)
(* C13.  A player none of whose words is non-empty after trimming, an      *)
(* empty list included, gets score 0 and bonusAwarded false in both round  *)
(* types: the bonus is never awarded vacuously.                            *)
(***************************************************************************)
C13_NoValidWordsNoScoreNoBonus ==
  scoresOut.done =>
    \A p \in Keys(playerWordsIn) :
      ValidPositions(playerWordsIn, p) = {} =>
        /\ scoresOut.scores[p].score = 0
        /\ ~scoresOut.scores[p].bonusAwarded

\* a scored round in which one player wrote only blank words and another
\* player got the bonus
C13_BlankListScored ==
  /\ scoresOut.done
  /\ \E p, q \in Keys(playerWordsIn) :
       /\ WordsOf(playerWordsIn, p) # <<>>
       /\ ValidPositions(playerWordsIn, p) = {}
       /\ scoresOut.scores[p].score = 0
       /\ scoresOut.scores[q].bonusAwarded

\* the players whose list holds at least one non-empty word
PlayersWithValidWords(playerWords) ==
  {p \in Keys(playerWords) : ValidPositions(playerWords, p) # {}}

(***************************************************************************)
(* C14.  A match round in which only one player submitted any non-empty    *)
(* word yields no positive score: that player, whatever their list holds   *)
(* (repetitions, case and whitespace variants of one word), gets score 0   *)
(* and bonusAwarded false, and so does everyone else.                      *)
(***************************************************************************)
C14_LonePlayerScoresNothing ==
  /\ scoresOut.done
  /\ roundTypeIn = "match"
  /\ Cardinality(PlayersWithValidWords(playerWordsIn)) = 1
  => \A p \in Keys(playerWordsIn) :
       /\ scoresOut.scores[p].score = 0
       /\ ~scoresOut.scores[p].bonusAwarded

\* a list with every word replaced by its lower-case, trimmed variant and
\* the words that are empty after trimming removed
CanonicalWords(words) ==
  SelectSeq([i \in 1..Len(words) |-> trim(toLowerCase(words[i]))],
            LAMBDA w : w # <<>>)

CanonicalInput(playerWords) ==
  [i \in 1..Len(playerWords) |->
     [playerWords[i] EXCEPT !.words = CanonicalWords(@)]]

Rearrangements(n) ==
  {f \in [1..n -> 1..n] : \A i, j \in 1..n : i # j => f[i] # f[j]}

Permuted(seq, f) == [i \in 1..Len(seq) |-> seq[f[i]]]

(***************************************************************************)
(* C16.  The scorer is deterministic and order-independent: a second run   *)
(* on the same input returns the same result, and permuting the players    *)
(* of the input, or the words within one player's list, leaves every       *)
(* player's score and bonusAwarded unchanged.                              *)
(***************************************************************************)
C16_OrderIndependent ==
  scoresOut.done =>
    /\ ScoreRound(roundTypeIn, playerWordsIn) = scoresOut.scores
    /\ \A f \in Rearrangements(Len(playerWordsIn)) :
         ScoreColumns(ScoreRound(roundTypeIn, Permuted(playerWordsIn, f)))
           = ScoreColumns(scoresOut.scores)
    /\ \A k \in 1..Len(playerWordsIn) :
         \A g \in Rearrangements(Len(playerWordsIn[k].words)) :
           ScoreColumns(ScoreRound(roundTypeIn,
                          [playerWordsIn EXCEPT ![k].words = Permuted(@, g)]))
             = ScoreColumns(scoresOut.scores)

\* a scored round of three players, one with two different words, in which
\* the players' scores differ
C16_UnevenRoundScored ==
  /\ scoresOut.done
  /\ Len(playerWordsIn) = 3
  /\ playerWordsIn[1].words = <<Cat, Dog>>
  /\ playerWordsIn[2].words = <<Dog>>
  /\ scoresOut.scores[1].score # scoresOut.scores[2].score
  /\ scoresOut.scores[2].score # scoresOut.scores[3].score

\* p's matchedWords holds the normalized word n
InMatchedWords(scores, p, n) ==
  \E k \in 1..Len(scores[p].matchedWords) : scores[p].matchedWords[k] = n

C18_PerfectUnmatchScenario ==
  /\ scoresOut.done
  /\ roundTypeIn = "unmatch"
  /\ playerWordsIn = perfectUnmatchExample
  => ScoreColumns(scoresOut.scores)
       = (1 :> [score |-> 6, bonusAwarded |-> TRUE]
          @@ 2 :> [score |-> 3, bonusAwarded |-> FALSE]
          @@ 3 :> [score |-> 3, bonusAwarded |-> FALSE])

\* the perfect-unmatch example scored as an unmatch round
C18_PerfectUnmatchExampleScored ==
  /\ scoresOut.done
  /\ roundTypeIn = "unmatch"
  /\ playerWordsIn = perfectUnmatchExample
  /\ scoresOut.scores[1].bonusAwarded

\* the rounds of a type, and the first of them: as many as the type's pool
\* has topics
RoundsOfType(type) ==
  {r \in PlayedRounds : rounds[r].exists /\ rounds[r].type = type}

FirstRoundsOfType(type) ==
  {r \in RoundsOfType(type) :
     Cardinality({q \in RoundsOfType(type) : q <= r})
       <= Cardinality(topics[type])}

(***************************************************************************)
(* C19.  Within a game, for each round type, no topic is selected twice    *)
(* until every topic of the type's pool has been selected once: the first  *)
(* N rounds of a type, N the size of the type's pool, have pairwise        *)
(* distinct topics.                                                        *)
(***************************************************************************)
C19_NoTopicRepeatWithinAPass ==
  Started =>
    \A type \in RoundTypes :
      \A r1, r2 \in FirstRoundsOfType(type) :
        r1 # r2 => rounds[r1].topic_id # rounds[r2].topic_id

\* a step that takes the game out of the lobby
LeavesLobby == game.status = "lobby" /\ game'.status = "in-progress"

\* the step is made by the host's start request, past its checks
ByHostStartRequest ==
  \E i \in ReqIds :
    /\ requests[i].op = "start" /\ requests[i].pc = "update_status"
    /\ requests'[i].op # "start"

\* a start request ends without starting the game
RejectedStart ==
  \E i \in ReqIds :
    /\ requests[i].op = "start" /\ requests[i].pc # "update_status"
    /\ requests'[i].op = "idle"

(***************************************************************************)
(* C20.  A game leaves the lobby for in-progress only through a start      *)
(* request of the host, made while the game has at least 2 players; a      *)
(* start request that is rejected changes no game, round or player row.    *)
(***************************************************************************)
C20_StartOnlyByHostWithTwoPlayers ==
  [][/\ LeavesLobby =>
          /\ ByHostStartRequest
          /\ Cardinality(Joined) >= MinPlayersToStart
     /\ RejectedStart => UNCHANGED dbVars]_vars

(***************************************************************************)
(* C21.  While the game's status is lobby no round exists for it and its   *)
(* current_round is 0, whatever requests have been served, start-round     *)
(* requests of the host before start included.                             *)
(***************************************************************************)
C21_NoRoundInLobby ==
  game.status = "lobby" =>
    /\ \A r \in RoundNos : ~rounds[r].exists
    /\ game.current_round = 0

\* request i is an end-round request that ends with this step
EndRoundEnds(i) ==
  requests[i].op = "end-round" /\ requests'[i].op = "idle"

\* a write of end-round request i has failed: a round_scores insert before
\* this step, or the insert of the next round in this step
WriteFailed(i) ==
  \/ requests[i].failed
  \/ /\ requests[i].pc = "insert_round"
     /\ rounds[requests[i].current_round + 1].exists

(***************************************************************************)
(* C22.  An end-round request one of whose writes failed (a RoundScore     *)
(* row, a player's total, the next round, the game's status or             *)
(* current_round) does not answer with success.                            *)
(***************************************************************************)
C22_FailedWriteIsSurfaced ==
  [][\A i \in ReqIds :
       EndRoundEnds(i) /\ WriteFailed(i)
         => EndRoundResponse(requests[i]) # "success"]_vars

\* the players with a submission in round r, and the round_scores rows of
\* a player in a round
Submitters(r) ==
  {p \in PlayerIds : \E s \in submissions : s.round_id = r /\ s.player_id = p}

RowsOf(r, p) ==
  {row \in round_scores : row.round_id = r /\ row.player_id = p}

\* a close of round r lost a RoundScore write, and a later close of r has
\* written the row of every player who submitted
RetriedAfterFault(r) ==
  /\ \E f \in faults : f.round_id = r
  /\ \A p \in Submitters(r) : HasScoreRow(r, p)

(***************************************************************************)
(* C23.  A round's scoring is not partially applied: when the insert of a  *)
(* player's RoundScore failed during a close and the close was retried     *)
(* with success, every player who submitted in the round has exactly one   *)
(* RoundScore row, and the total of each of them with a positive round     *)
(* score has been incremented exactly once.                                *)
(***************************************************************************)
C23_RetryAppliesScoringOnce ==
  Started /\ Quiescent =>
    \A r \in PlayedRounds :
      RetriedAfterFault(r) =>
        \A p \in Submitters(r) :
          /\ Cardinality(RowsOf(r, p)) = 1
          /\ \A row \in RowsOf(r, p) :
               row.score > 0 => score_updates[r][p] = 1

\* save request i ends with this step
SaveEnds(i) == requests[i].op = "save" /\ requests'[i].op = "idle"

(***************************************************************************)
(* C24.  Saving a submission is idempotent per (round, player, word):      *)
(* when a save ends there is exactly one submissions row for its triple,   *)
(* however often the triple has been saved, and the rows of the other      *)
(* triples are as they were (distinct words keep their own rows); no       *)
(* triple ever has two rows.                                               *)
(***************************************************************************)
C24_SaveIsIdempotent ==
  [][\A i \in ReqIds :
       SaveEnds(i) =>
         /\ Cardinality({row \in submissions' :
               SameTriple(row, requests[i].round_id, requests[i].player_id,
                          requests[i].word)}) = 1
         /\ \A row \in submissions :
              ~SameTriple(row, requests[i].round_id, requests[i].player_id,
                          requests[i].word) => row \in submissions'
         /\ \A row \in submissions' :
              ~SameTriple(row, requests[i].round_id, requests[i].player_id,
                          requests[i].word) => row \in submissions]_vars

\* one player has saved two distinct words, one of them final, and a save
\* of a word that already has its row is in flight
C24_SavedAgain ==
  /\ \E p \in PlayerIds :
       /\ TripleRows(1, p, Cat) # {} /\ TripleRows(1, p, Dog) # {}
       /\ \E row \in TripleRows(1, p, Cat) : row.is_final
  /\ \E i \in ReqIds :
       /\ requests[i].op = "save"
       /\ requests[i].existing

(***************************************************************************)
(* Fair scheduling.  The countdown effect of the game page closes the      *)
(* round the host's client shows once its time is up, and every request a  *)
(* handler has accepted runs to its end.  Nothing is assumed about what    *)
(* the players submit.                                                     *)
(***************************************************************************)
\* the host's timer reaches zero on the open current round: endRound()
CloseTrigger ==
  \E i \in ReqIds :
    /\ Open(game.current_round)
    /\ EndRound_Stamp(i, game.current_round)

\* the next step of the request in slot i
Completes(i) ==
  \/ EndRound_GetSubmissions(i)
  \/ EndRound_InsertScore(i)
  \/ EndRound_UpdatePlayer(i)
  \/ EndRound_GetGame(i)
  \/ EndRound_Complete(i)
  \/ EndRound_InsertRound(i)
  \/ EndRound_UpdateCurrent(i)
  \/ StartRound_GetGame(i)
  \/ StartRound_CheckRound(i)
  \/ StartRound_InsertRound(i)
  \/ StartRound_UpdateCurrent(i)
  \/ Start_CountPlayers(i)
  \/ Start_UpdateStatus(i)

Fairness ==
  /\ WF_vars(CloseTrigger)
  /\ \A i \in ReqIds : WF_vars(Completes(i))

InitLive ==
  /\ InitDb
  /\ NoTracker
  /\ NoTimeUp
  /\ route \in {"A", "B"}
  /\ topics = Pools(NumTopics)
  /\ overlaps = 0
  /\ capacity = MaxRaceSubmissions
  /\ NoScorer

SpecLive == InitLive /\ [][Next]_vars /\ Fairness

(***************************************************************************)
(* C25.  Under the fair scheduling above, every started game eventually    *)
(* reaches status completed, whatever the players submit in each round,    *)
(* nothing at all included.                                                *)
(***************************************************************************)
C25_StartedGameCompletes ==
  (Started /\ game.current_round = 1 /\ Open(1)) ~> (game.status = "completed")

(***************************************************************************)
(* C26.  A round's end_time is set exactly once: once a round of a started *)
(* game is closed, no step (a repeated end-round call on the same round    *)
(* in particular) changes its end_time or resets it to null.               *)
(***************************************************************************)
C26_EndTimeSetOnce ==
  [][Started =>
       \A r \in PlayedRounds :
         Closed(r) => rounds'[r].end_time = rounds[r].end_time]_vars

\* the state a successful close of round n leaves behind
ClosedAndAdvanced(n) ==
  /\ \A p \in Submitters(n) : HasScoreRow(n, p)
  /\ \/ /\ n < game.round_count
        /\ Open(n + 1)
        /\ game.current_round = n + 1
     \/ /\ n = game.round_count
        /\ game.status = "completed"

(***************************************************************************)
(* C27.  When a close of round n of a started game completes successfully, *)
(* scoring has been applied and either n < round_count, round n+1 exists   *)
(* with null end_time and current_round = n+1, or n = round_count and the  *)
(* game's status is completed: a successful close never leaves the game    *)
(* in-progress with no open round.                                         *)
(***************************************************************************)
C27_CloseAdvancesOrCompletes ==
  [][\A i \in ReqIds :
       /\ Started
       /\ EndRoundEnds(i)
       /\ EndRoundResponse(requests[i]) = "success"
       /\ requests[i].round \in PlayedRounds
       => ClosedAndAdvanced(requests[i].round)']_vars

(***************************************************************************)
(* C28.  Repeated or concurrent close attempts on the same round n of a    *)
(* started game create at most one successor round and advance             *)
(* current_round by at most 1: a step of an end-round request for round n  *)
(* creates no round other than n+1 and moves current_round nowhere but to  *)
(* n+1.                                                                    *)
(***************************************************************************)
C28_OneSuccessorPerRound ==
  [][\A i \in ReqIds :
       /\ Started
       /\ requests[i].op = "end-round"
       /\ requests'[i] # requests[i]
       /\ requests[i].round \in PlayedRounds
       => /\ \A m \in RoundNos :
               rounds'[m].exists /\ ~rounds[m].exists => m = requests[i].round + 1
          /\ game'.current_round # game.current_round
               => game'.current_round = requests[i].round + 1]_vars

\* the ids a used-id list names
UsedIdsOf(usedIds) == {usedIds[k] : k \in 1..Len(usedIds)}

(***************************************************************************)
(* C29.  Topic draw past exhaustion: for a non-empty pool getRandomTopic   *)
(* returns a topic of the requested round type's pool whatever the used-id *)
(* list is, also when every topic of that type is used already, and it     *)
(* raises an error only when the type's pool is empty.                     *)
(***************************************************************************)
C29_DrawPastExhaustion ==
  drawn.called =>
    /\ topics[drawn.type] # {}
         => ~drawn.error /\ drawn.topic \in topics[drawn.type]
    /\ drawn.error => topics[drawn.type] = {}

\* a draw from a pool of several topics all of which were used already
C29_DrawnFromUsedUpPool ==
  /\ drawn.called
  /\ Cardinality(topics[drawn.type]) >= 2
  /\ topics[drawn.type] \subseteq UsedIdsOf(drawn.used)
  /\ drawn.topic \in topics[drawn.type]

(***************************************************************************)
(* C30.  The current_round of a started game never decreases, and every    *)
(* change raises it by exactly 1: it goes 0, 1, 2, ... without skipping a  *)
(* number.                                                                 *)
(***************************************************************************)
C30_CurrentRoundStepsByOne ==
  [][Started /\ game'.current_round # game.current_round
       => game'.current_round = game.current_round + 1]_vars

\* every registered player has a submission recorded for round r
AllPlayersSubmitted(r) == Joined \subseteq Submitters(r)

(***************************************************************************)
(* C31.  The end_time of a round of a started game is set only in a state  *)
(* where time_per_round seconds have passed since its start_time or every  *)
(* registered player has at least one submission recorded for the round:   *)
(* a round is never closed before one of the two holds.                    *)
(***************************************************************************)
C31_ClosedOnlyWhenDue ==
  [][Started =>
       \A r \in PlayedRounds :
         rounds[r].exists /\ rounds[r].end_time = 0 /\ rounds'[r].end_time # 0
           => time_up[r] \/ AllPlayersSubmitted(r)]_vars

\* the submissions rows of round r
SubmissionsOf(r) == {s \in submissions : s.round_id = r}

(***************************************************************************)
(* C32.  Submissions are accepted only while the round is open: no         *)
(* submission row is recorded for a round of a started game whose end_time *)
(* is set already, so the rows of a round are those its scores were        *)
(* computed from.                                                          *)
(***************************************************************************)
C32_NoSubmissionAfterClose ==
  [][Started =>
       \A r \in PlayedRounds :
         Closed(r) => SubmissionsOf(r)' = SubmissionsOf(r)]_vars

(***************************************************************************)
(* C33.  The number of players of a game never exceeds the game's          *)
(* max_players, also when several join requests for the game are served    *)
(* at the same time.                                                       *)
(***************************************************************************)
C33_NeverMoreThanMaxPlayers ==
  Cardinality(Joined) <= game.max_players

(***************************************************************************)
(* C34.  No player is added to a game whose status is not lobby: a join on *)
(* an in-progress or completed game inserts no player, also when the join  *)
(* request races with the host's start request.                            *)
(***************************************************************************)
C34_NoJoinAfterStart ==
  [][game.status # "lobby" => Joined' = Joined]_vars

(***************************************************************************)
(* C35.  Start is all-or-nothing: once the start request has ended, either *)
(* the status change and round 1 have both taken effect or the game is     *)
(* still in lobby; a failed start-round call does not leave the game       *)
(* in-progress with no round.                                              *)
(***************************************************************************)
C35_StartAllOrNothing ==
  Quiescent /\ Started => rounds[1].exists

(***************************************************************************)
(* C36.  Whenever a game's current_round is n >= 1, a round numbered n     *)
(* exists for the game: in no reachable state, the states between the two  *)
(* writes that open a round and those after one of them failed included,   *)
(* does current_round point at a round that does not exist.                *)
(***************************************************************************)
C36_CurrentRoundExists ==
  game.current_round >= 1 => rounds[game.current_round].exists

\* the input is what the submissions rows of a round give: every player in
\* it has a word, no player has a word twice (UNIQUE(round_id, player_id,
\* word)), and the words are stored trimmed, non-empty and in lower case
SubmissionsByPlayer(playerWords) ==
  \A i \in 1..Len(playerWords) :
    /\ playerWords[i].words # <<>>
    /\ \A k, l \in 1..Len(playerWords[i].words) :
         playerWords[i].words[k] = playerWords[i].words[l] => k = l
    /\ \A k \in 1..Len(playerWords[i].words) :
         /\ playerWords[i].words[k] # <<>>
         /\ normalizedWord(playerWords[i].words[k]) = playerWords[i].words[k]

(***************************************************************************)
(* C37.  The scoring implementations agree: for the submissions of a round *)
(* and both round types, the round score the edge function's               *)
(* calculate-scores action and the hook's calculateAndRecordScores compute *)
(* for a player equals the score calculateMatchRoundScores /               *)
(* calculateUnmatchRoundScores return for the same input.                  *)
(***************************************************************************)
C37_ScorersAgree ==
  scoresOut.done /\ SubmissionsByPlayer(playerWordsIn) =>
    \A p \in Keys(playerWordsIn) :
      calculateScores(playerWordsIn, roundTypeIn)[p] = scoresOut.scores[p].score

\* the number of non-empty trimmed words in p's list
ValidWordCount(playerWords, p) == Cardinality(ValidPositions(playerWords, p))

(***************************************************************************)
(* C38.  For both round types and every input, with n the number of a      *)
(* player's non-empty trimmed words and s the returned score: bonusAwarded *)
(* is true exactly when s = n + 1 and n > 0; without the bonus             *)
(* 0 <= s <= n - 1 (s = 0 when n = 0); a score is never negative, never    *)
(* above n + 1, and never exactly n when n > 0.                            *)
(***************************************************************************)
C38_ScoreRange ==
  scoresOut.done =>
    \A p \in Keys(playerWordsIn) :
      LET n == ValidWordCount(playerWordsIn, p)
          s == scoresOut.scores[p].score
          b == scoresOut.scores[p].bonusAwarded
      IN /\ b <=> (s = n + 1 /\ n > 0)
         /\ ~b => IF n = 0 THEN s = 0 ELSE 0 <= s /\ s <= n - 1
         /\ 0 <= s /\ s <= n + 1
         /\ n > 0 => s # n

\* a round was scored in which one player with two words got the bonus
\* (score 3) and another player with two words scored one of them
C38_BonusAndPartialScored ==
  /\ scoresOut.done
  /\ \E p, q \in Keys(playerWordsIn) :
       /\ ValidWordCount(playerWordsIn, p) = 2
       /\ scoresOut.scores[p].bonusAwarded
       /\ scoresOut.scores[p].score = 3
       /\ ValidWordCount(playerWordsIn, q) = 2
       /\ ~scoresOut.scores[q].bonusAwarded
       /\ scoresOut.scores[q].score = 1

\* the score of p's round_scores row for round r
RoundScoreOf(r, p) ==
  (CHOOSE row \in round_scores : row.round_id = r /\ row.player_id = p).score

(***************************************************************************)
(* C39.  Applying round scores never loses an increment: once the scores   *)
(* of two rounds have been applied to a player by the calculate-scores     *)
(* action, one call after the other or interleaved, the player's total is  *)
(* the initial total (0) plus both round scores.                           *)
(***************************************************************************)
C39_NoLostIncrement ==
  Quiescent =>
    \A p \in PlayerIds :
      HasScoreRow(1, p) /\ HasScoreRow(2, p) =>
        players[p].score = RoundScoreOf(1, p) + RoundScoreOf(2, p)
====
